---- MODULE Spec2Model ----
(***************************************************************************)
(* Payment tracker (src/app.py): the data-access layer of a Streamlit page *)
(* over a PostgreSQL "payments" table, reached through psycopg2.           *)
(*                                                                         *)
(* A process is one running copy of the app: it memoizes one connection    *)
(* (st.cache_resource) and stamps rows with its own datetime.now().        *)
(* Time is counted in ticks of one hour.       Every reading of the clock   *)
(* is strictly later, in true time, than the one before it; a process's    *)
(* reading is the true time plus the offset of its host's local clock      *)
(* (datetime.now() is naive local time).                                   *)
(* Amounts are whole numbers of cents.                                     *)
(***************************************************************************)
EXTENDS Integers, Sequences, FiniteSets, TLC

\* ------------------------------------------------------------- bounds
Procs == {1, 2}
MaxRows == 2
MaxTime == 3
MaxLimit == 2

\* ------------------------------------------------------ program constants
HourTicks == 1
\* DATE(created_at): a day, shortened to two hours to keep the model finite
DayTicks == 2 * HourTicks
MainLimit == 50
\* two hosts' local clocks agree, or are two hours apart (time zones)
ClockOffsets == {0, 2 * HourTicks}

Statuses == {"pending", "completed", "failed", "refunded"}
Currencies == {"USD", "EUR", "GBP", "JPY"}
Methods == {"credit_card", "debit_card", "paypal", "bank_transfer"}

\* what a caller may hand to add_payment: two valid payments, and one the
\* form would refuse (empty name, amount 0) but add_payment itself does not
ValidInputs ==
    { [customer_name |-> "Alice", amount |-> 4999, currency |-> "USD",
       payment_method |-> "credit_card"],
      [customer_name |-> "Bob", amount |-> 1, currency |-> "JPY",
       payment_method |-> "paypal"] }
InvalidInputs ==
    { [customer_name |-> "", amount |-> 0, currency |-> "USD",
       payment_method |-> "paypal"] }
Inputs == ValidInputs \cup InvalidInputs

\* statuses a caller may hand to update_payment_status: the one a new row
\* has, another one, and one the storage refuses
StatusArgs == {"pending", "completed", "bogus"}
Ids == 1..MaxRows
Limits == 1..MaxLimit

VARIABLES
    payments,   \* the committed rows of the payments table
    nextId,     \* the storage's id sequence
    wall,       \* true time
    skew,       \* skew[p]: offset of process p's local clock
    conn,       \* conn[p]: what init_connection memoized for p
    page,       \* page[p]: main got past its connection check
    txn,        \* txn[p]: the call p is in the middle of
    last        \* the call that returned last, and what it returned

vars == <<payments, nextId, wall, skew, conn, page, txn, last>>

NoTxn == [kind |-> "none"]
NoCall == [op |-> "none", conn |-> "unset"]

Min(a, b) == IF a < b THEN a ELSE b

\* ----------------------------------------------------------- the clock
\* datetime.now() as process p reads it
Now(p) == wall + skew[p]
DateOf(t) == t \div DayTicks

\* ------------------------------------------------------------ storage
\* the column constraints of the payments table
StorageAccepts(in) ==
    /\ in.customer_name # ""
    /\ in.amount > 0
    /\ in.currency \in Currencies
    /\ in.payment_method \in Methods
StorageAcceptsStatus(s) == s \in Statuses

\* the id sequence hands out each value once
NextVal(n) == n + 1

RowIds(rows) == {r.id : r \in rows}

\* ---------------------------------------------------- init_connection
\* `if not conn`
NoConn(c) == c = "none"
\* a connection on which execute() works
Usable(c) == c = "ok"
\* psycopg2 after a statement raised: the transaction stays aborted until a
\* rollback, and no except branch calls conn.rollback()
AfterError(c) == "aborted"

Idle(p) == txn[p].kind = "none"
\* p begins a call, handing over what init_connection gave it
Called(p) == Idle(p) /\ conn[p] # "unset"

\* st.cache_resource: the first result, a connection or None, is kept
init_connection(p, reachable) ==
    IF conn[p] = "unset"
    THEN IF reachable THEN "ok" ELSE "none"
    ELSE conn[p]

\* faulty variant, for sensitivity checks: main without its early return
MainProceedsAlways(c) == TRUE
\* main, lines 151-163: acquire the connection, stop when there is none
MainProceeds(c) == ~NoConn(c)

Main(p) ==
    /\ Idle(p)
    /\ \E reachable \in BOOLEAN :
          LET c == init_connection(p, reachable) IN
          /\ conn' = [conn EXCEPT ![p] = c]
          /\ page' = [page EXCEPT ![p] = MainProceeds(c)]
    /\ UNCHANGED <<payments, nextId, wall, skew, txn, last>>


\* -------------------------------------------------------- get_payments
\* ORDER BY created_at DESC: every order of the rows the database may give
IsSortedDesc(s) ==
    \A i \in 1..(Len(s) - 1) : s[i].created_at >= s[i + 1].created_at
OrderedDesc(rows) ==
    LET n == Cardinality(rows) IN
    { s \in [1..n -> rows] :
        /\ \A i, j \in 1..n : i # j => s[i] # s[j]
        /\ IsSortedDesc(s) }
\* faulty variant, for sensitivity checks: the cut taken one row too far
SqlLimitOffByOne(s, limit) == SubSeq(s, 1, Min(limit + 1, Len(s)))
\* ... LIMIT %s
SqlLimit(s, limit) == SubSeq(s, 1, Min(limit, Len(s)))
ListQuery(rows, limit) == { SqlLimit(s, limit) : s \in OrderedDesc(rows) }

\* what get_payments may return: [] without a connection (lines 37-38) or
\* when execute raises (lines 54-56), the query's rows otherwise
ListResults(c, rows, limit) ==
    IF NoConn(c) THEN {<< >>}
    ELSE IF ~Usable(c) THEN {<< >>}
    ELSE ListQuery(rows, limit)

get_payments(p, limit) ==
    /\ Called(p)
    /\ \E res \in ListResults(conn[p], payments, limit) :
          last' = [op |-> "list", conn |-> conn[p],
                   limit |-> limit, ret |-> res]
    /\ UNCHANGED <<payments, nextId, wall, skew, conn, page, txn>>

\* --------------------------------------------------------- add_payment
\* the INSERT's row: status "pending", created_at and updated_at both `now`
NewRow(id, in, now) ==
    [id |-> id, customer_name |-> in.customer_name, amount |-> in.amount,
     currency |-> in.currency, status |-> "pending",
     payment_method |-> in.payment_method,
     created_at |-> now, updated_at |-> now]

\* An INSERT not yet committed is seen by no other statement and holds no
\* lock another statement waits for: execute and commit are one step.
add_payment(p, in) ==
    /\ Called(p)
    /\ IF NoConn(conn[p])
       THEN \* lines 61-62
            /\ last' = [op |-> "insert", conn |-> conn[p],
                        fault |-> "none", ret |-> FALSE]
            /\ UNCHANGED <<payments, nextId, wall, conn>>
       ELSE \* line 70: the clock is read
            /\ wall < MaxTime
            /\ wall' = wall + 1
            /\ IF ~Usable(conn[p])
               THEN \* the transaction is aborted: execute raises
                    /\ last' = [op |-> "insert", conn |-> conn[p],
                                fault |-> "none", ret |-> FALSE]
                    /\ UNCHANGED <<payments, nextId, conn>>
               ELSE /\ nextId <= MaxRows
                    /\ nextId' = NextVal(nextId)
                    /\ IF StorageAccepts(in)
                       THEN \* lines 71-74
                            /\ payments' =
                                 payments \cup {NewRow(nextId, in, Now(p))}
                            /\ last' = [op |-> "insert", conn |-> conn[p], input |-> in,
                                        now |-> Now(p), id |-> nextId,
                                        fault |-> "none", ret |-> TRUE]
                            /\ UNCHANGED conn
                       ELSE \* execute raises (lines 75-77): no rollback
                            /\ conn' = [conn EXCEPT ![p] = AfterError(conn[p])]
                            /\ last' = [op |-> "insert", conn |-> conn[p], input |-> in,
                                        now |-> Now(p), id |-> 0,
                                        fault |-> "rejected", ret |-> FALSE]
                            /\ UNCHANGED payments
    /\ UNCHANGED <<skew, page, txn>>

\* ----------------------------------------------- update_payment_status
\* faulty variant, for sensitivity checks: updated_at left out of the SET
UpdateRowStatusOnly(r, status, now) == [r EXCEPT !.status = status]
\* SET status = %s, updated_at = %s
UpdateRow(r, status, now) == [r EXCEPT !.status = status, !.updated_at = now]
\* faulty variant, for sensitivity checks: the WHERE clause left out
UpdateWhereAll(r, id) == TRUE
\* WHERE id = %s
UpdateWhere(r, id) == r.id = id
ApplyUpdate(rows, id, status, now) ==
    { IF UpdateWhere(r, id) THEN UpdateRow(r, status, now) ELSE r : r \in rows }
\* faulty variant, for sensitivity checks: the return decided by the rows affected
UpdateReturnRowcount(rowcount) == rowcount > 0
\* line 94: True, with no look at cursor.rowcount
UpdateReturn(rowcount) == TRUE

\* another process's UPDATE of the row is executed and not yet committed
RowLocked(p, id) ==
    \E q \in Procs \ {p} :
        /\ txn[q].kind = "update"
        /\ txn[q].phase = "executed"
        /\ txn[q].id = id
        /\ txn[q].rowcount > 0

\* the status the row with this id carries ("" when there is no such row)
StatusOf(rows, id) ==
    IF id \in RowIds(rows)
    THEN (CHOOSE r \in rows : r.id = id).status
    ELSE ""

\* the updated_at the row with this id carries (-1 when there is no such row)
UpdatedAtOf(rows, id) ==
    IF id \in RowIds(rows)
    THEN (CHOOSE r \in rows : r.id = id).updated_at
    ELSE -1

\* lines 81-91: the parameters are built, datetime.now() among them, and
\* the statement is sent
UpdateCall(p, id, status) ==
    /\ Called(p)
    /\ IF NoConn(conn[p])
       THEN \* lines 81-82
            /\ last' = [op |-> "update_status", conn |-> conn[p],
                        fault |-> "none", ret |-> FALSE]
            /\ UNCHANGED <<wall, txn>>
       ELSE /\ wall < MaxTime
            /\ wall' = wall + 1
            /\ IF ~Usable(conn[p])
               THEN \* the transaction is aborted: execute raises
                    /\ last' = [op |-> "update_status", conn |-> conn[p], fault |-> "none",
                                ret |-> FALSE]
                    /\ UNCHANGED txn
               ELSE LET racing == {q \in Procs \ {p} :
                                     txn[q].kind = "update" /\ txn[q].id = id}
                    IN
                    /\ txn' = [q \in Procs |->
                                IF q = p
                                THEN [kind |-> "update", phase |-> "sent",
                                      id |-> id, status |-> status,
                                      now |-> Now(p),
                                      prior |-> UpdatedAtOf(payments, id),
                                      rowcount |-> 0, raced |-> racing # {}]
                                ELSE IF q \in racing
                                     THEN [txn[q] EXCEPT !.raced = TRUE]
                                     ELSE txn[q]]
                    /\ UNCHANGED last
    /\ UNCHANGED <<payments, nextId, skew, conn, page>>

\* the server executes the UPDATE once no other transaction holds the row
UpdateExecute(p) ==
    /\ txn[p].kind = "update"
    /\ txn[p].phase = "sent"
    /\ ~RowLocked(p, txn[p].id)
    /\ LET t == txn[p]
           n == Cardinality({r \in payments : UpdateWhere(r, t.id)})
       IN
       IF n > 0 /\ ~StorageAcceptsStatus(t.status)
       THEN \* execute raises (lines 95-97): no rollback
            /\ conn' = [conn EXCEPT ![p] = AfterError(conn[p])]
            /\ txn' = [txn EXCEPT ![p] = NoTxn]
            /\ last' = [op |-> "update_status", conn |-> conn[p],
                        id |-> t.id, status |-> t.status, now |-> t.now,
                        rowcount |-> 0, raced |-> t.raced,
                        over |-> StatusOf(payments, t.id),
                        fault |-> "rejected", ret |-> FALSE]
       ELSE /\ txn' = [txn EXCEPT ![p] =
                         [t EXCEPT !.phase = "executed", !.rowcount = n]]
            /\ UNCHANGED <<conn, last>>
    /\ UNCHANGED <<payments, nextId, wall, skew, page>>

\* lines 92-94: commit, return True
UpdateCommit(p) ==
    /\ txn[p].kind = "update"
    /\ txn[p].phase = "executed"
    /\ LET t == txn[p] IN
       \* the rows the statement matched when it ran, locked since
       /\ payments' = IF t.rowcount > 0
                      THEN ApplyUpdate(payments, t.id, t.status, t.now)
                      ELSE payments
       /\ txn' = [txn EXCEPT ![p] = NoTxn]
       /\ last' = [op |-> "update_status", conn |-> conn[p],
                   id |-> t.id, status |-> t.status, now |-> t.now,
                   rowcount |-> t.rowcount, raced |-> t.raced,
                   over |-> StatusOf(payments, t.id),
                   fault |-> "none", ret |-> UpdateReturn(t.rowcount)]
    /\ UNCHANGED <<nextId, wall, skew, conn, page>>

\* ---------------------------------------------------- get_payment_stats
Null == [null |-> TRUE, v |-> 0]
Some(x) == [null |-> FALSE, v |-> x]

RECURSIVE SumAmount(_)
SumAmount(rows) ==
    IF rows = {} THEN 0
    ELSE LET r == CHOOSE x \in rows : TRUE IN
         r.amount + SumAmount(rows \ {r})
\* SUM(amount): NULL over no rows
SqlSum(rows) == IF rows = {} THEN Null ELSE Some(SumAmount(rows))
\* COALESCE(x, d)
Coalesce(x, d) == IF x.null THEN d ELSE x.v
\* Python's `x or d` on a number
PyOr(x, d) == IF x = 0 THEN d ELSE x

\* WHERE DATE(created_at) = %s
TodayRows(rows, today) == {r \in rows : DateOf(r.created_at) = today}
\* SELECT status, COUNT(*) ... GROUP BY status, as a dict
StatusDist(rows) ==
    [s \in {r.status : r \in rows} |->
        Cardinality({r \in rows : r.status = s})]
\* faulty variant, for sensitivity checks: > for >=
RecentRowsStrict(rows, since) == {r \in rows : r.created_at > since}
\* WHERE created_at >= %s
RecentRows(rows, since) == {r \in rows : r.created_at >= since}

\* lines 135-140, from the date read at line 108 and the time read at 125
StatsOf(rows, today, now) ==
    [today_count |-> PyOr(Cardinality(TodayRows(rows, today)), 0),
     today_total |-> PyOr(Coalesce(SqlSum(TodayRows(rows, today)), 0), 0),
     status_distribution |-> StatusDist(rows),
     recent_activity |->
         PyOr(Cardinality(RecentRows(rows, now - HourTicks)), 0)]
\* {}
EmptyMap == << >>

\* The three SELECTs run one after the other, each on the rows committed
\* when it runs; here no other process commits between them.
get_payment_stats(p) ==
    /\ Called(p)
    /\ IF NoConn(conn[p])
       THEN \* lines 101-102
            /\ last' = [op |-> "stats", conn |-> conn[p],
                        ret |-> EmptyMap]
            /\ UNCHANGED wall
       ELSE IF ~Usable(conn[p])
       THEN \* line 108 reads the clock, then execute raises
            /\ wall < MaxTime
            /\ wall' = wall + 1
            /\ last' = [op |-> "stats", conn |-> conn[p],
                        ret |-> EmptyMap]
       ELSE \* the clock is read at line 108 and again at line 125
            /\ wall < MaxTime
            /\ wall' = wall + 2
            /\ last' = [op |-> "stats", conn |-> conn[p],
                        today |-> DateOf(Now(p)), now |-> Now(p) + 1,
                        ret |-> StatsOf(payments, DateOf(Now(p)), Now(p) + 1)]
    /\ UNCHANGED <<payments, nextId, skew, conn, page, txn>>

\* time passes
Tick ==
    /\ wall < MaxTime
    /\ wall' = wall + 1
    /\ UNCHANGED <<payments, nextId, skew, conn, page, txn, last>>

Init ==
    /\ payments = {}
    /\ nextId = 1
    /\ wall = 0
    /\ skew \in {f \in [Procs -> ClockOffsets] : f[1] = 0}
    /\ conn = [p \in Procs |-> "unset"]
    /\ page = [p \in Procs |-> FALSE]
    /\ txn = [p \in Procs |-> NoTxn]
    /\ last = NoCall

Next ==
    \/ \E p \in Procs : Main(p)
    \/ \E p \in Procs, limit \in Limits \cup {MainLimit} : get_payments(p, limit)
    \/ \E p \in Procs, in \in Inputs : add_payment(p, in)
    \/ \E p \in Procs : get_payment_stats(p)
    \/ \E p \in Procs, id \in Ids, status \in StatusArgs :
          UpdateCall(p, id, status)
    \/ \E p \in Procs : UpdateExecute(p)
    \/ \E p \in Procs : UpdateCommit(p)
    \/ Tick

Spec == Init /\ [][Next]_vars

\* =====================================================================
\* Properties
\* =====================================================================
AllLimits == Limits \cup {MainLimit}
RowOf(rows, id) == CHOOSE r \in rows : r.id = id
Range(s) == {s[i] : i \in 1..Len(s)}
\* p's UPDATE is committed in this step
UpdateCommitStep(p) ==
    /\ txn[p].kind = "update"
    /\ txn[p].phase = "executed"
    /\ txn'[p].kind = "none"
\* an INSERT is committed in this step
InsertStep == nextId' # nextId /\ last'.op = "insert" /\ last'.ret = TRUE

\* C1 (as claimed): a successful insert adds exactly one row, and whatever
\* the table held before, every list(limit >= 1) that follows returns that row,
\* with status "pending" and created_at = updated_at.
C1_InsertThenList ==
    [][InsertStep =>
         /\ payments \subseteq payments'
         /\ Cardinality(payments' \ payments) = 1
         /\ \A limit \in AllLimits : \A res \in ListQuery(payments', limit) :
               \E i \in 1..Len(res) :
                  /\ res[i].id = last'.id
                  /\ res[i].status = "pending"
                  /\ res[i].created_at = res[i].updated_at]_vars

\* C2 (as claimed): when an update of a row that existed at the call
\* returns, the row carries the new status and an updated_at strictly
\* greater than the one it carried before the call.
C2_UpdatedAtAdvances ==
    [][\A p \in Procs :
         (UpdateCommitStep(p) /\ txn[p].prior >= 0) =>
            /\ RowOf(payments', txn[p].id).status = txn[p].status
            /\ RowOf(payments', txn[p].id).updated_at > txn[p].prior]_vars

\* C3: a list(limit) whose query runs returns min(limit, table size) rows,
\* no more than limit, sorted by created_at descending, and no row left out
\* has a created_at greater than that of a row returned.
C3_ListOrderedAndCapped ==
    (last.op = "list" /\ last.conn = "ok") =>
        LET res == last.ret IN
        /\ Len(res) <= last.limit
        /\ Len(res) = Min(last.limit, Cardinality(payments))
        /\ \A i, j \in 1..Len(res) :
              i < j => res[i].created_at >= res[j].created_at /\ res[i] # res[j]
        /\ Range(res) \subseteq payments
        /\ \A r \in payments \ Range(res) : \A i \in 1..Len(res) :
              res[i].created_at >= r.created_at

\* C3 witness: a list cut by its limit, over rows of different created_at
C3_Witness ==
    /\ last.op = "list"
    /\ last.conn = "ok"
    /\ Len(last.ret) = 1
    /\ \E r \in payments : r.created_at < last.ret[1].created_at

\* C4: without a connection list returns the empty sequence, stats the empty
\* mapping, insert and update_status false, no such call changes the table,
\* and main does not get to the page body, where its repository calls are.
C4_NoConnection ==
    [][/\ (last'.op = "list" /\ last'.conn = "none") => Len(last'.ret) = 0
       /\ (last'.op = "stats" /\ last'.conn = "none") => DOMAIN last'.ret = {}
       /\ (last'.op \in {"insert", "update_status"} /\ last'.conn = "none")
             => last'.ret = FALSE
       /\ payments' # payments => last'.conn # "none"
       /\ \A p \in Procs : page'[p] => conn'[p] # "none"]_vars

\* C4 witness: a process without a connection was refused an insert while
\* the table holds a row, and its main stopped
C4_Witness ==
    /\ last.op = "insert"
    /\ last.conn = "none"
    /\ payments # {}
    /\ \E p \in Procs : conn[p] = "none" /\ ~page[p]

\* C5 (as claimed): an update_status whose id matches no row returns false
\* and leaves every row unchanged.
C5_NoMatchReturnsFalse ==
    [][\A p \in Procs :
         (UpdateCommitStep(p) /\ txn[p].rowcount = 0) =>
            payments' = payments /\ last'.ret = FALSE]_vars

\* C5 (amended): an update_status whose statement runs and matches no row
\* returns true, and leaves every row unchanged.
C5_NoMatchReturnsTrue ==
    [][\A p \in Procs :
         (UpdateCommitStep(p) /\ txn[p].rowcount = 0) =>
            payments' = payments /\ last'.ret = TRUE]_vars

\* C5 witness: an update of an id no row carries has returned, over a table
\* that holds a row
C5_Witness ==
    /\ last.op = "update_status"
    /\ last.conn = "ok"
    /\ last.fault = "none"
    /\ last.rowcount = 0
    /\ last.id \notin RowIds(payments)
    /\ payments # {}

RECURSIVE TotalById(_, _)
TotalById(rows, n) ==
    IF n = 0 THEN 0
    ELSE (IF n \in RowIds(rows) THEN RowOf(rows, n).amount ELSE 0)
         + TotalById(rows, n - 1)

\* C6: with a usable connection compute_stats returns the count and the sum
\* of the amounts of the rows created on the current date, the number of
\* rows of each status that some row carries (and no other key), and the
\* count of the rows created no more than an hour ago; all 0 and an empty
\* distribution over an empty table.
C6_Stats ==
    (last.op = "stats" /\ last.conn = "ok") =>
        LET st == last.ret
            todays == {r \in payments : r.created_at \div DayTicks = last.today}
        IN
        /\ st.today_count = Cardinality(todays)
        /\ st.today_total = TotalById(todays, nextId)
        /\ DOMAIN st.status_distribution =
              {s \in Statuses : \E r \in payments : r.status = s}
        /\ \A s \in DOMAIN st.status_distribution :
              /\ st.status_distribution[s] > 0
              /\ st.status_distribution[s] =
                    Cardinality({r \in payments : r.status = s})
        /\ st.recent_activity =
              Cardinality({r \in payments : r.created_at + HourTicks >= last.now})
        /\ payments = {} =>
              /\ st.today_count = 0
              /\ st.today_total = 0
              /\ DOMAIN st.status_distribution = {}
              /\ st.recent_activity = 0

\* C6 witness: statistics over two rows, one of them created today and
\* within the hour, the other neither
C6_Witness ==
    /\ last.op = "stats"
    /\ last.conn = "ok"
    /\ Cardinality(payments) = 2
    /\ last.ret.today_count = 1
    /\ last.ret.recent_activity = 1
    /\ last.ret.today_total > 0

\* C7 (as claimed): every row has updated_at >= created_at, and no two rows
\* share an id.
C7_RowInvariants ==
    /\ \A r \in payments : r.updated_at >= r.created_at
    /\ \A r, q \in payments : r.id = q.id => r = q

\* C8: a committed update changes only status and updated_at of the row
\* with the given id, and adds or removes no row; a list or compute_stats
\* changes no row.
C8_UpdateFrame ==
    [][/\ \A p \in Procs : UpdateCommitStep(p) =>
             /\ RowIds(payments') = RowIds(payments)
             /\ Cardinality(payments') = Cardinality(payments)
             /\ \A r \in payments :
                   LET n == RowOf(payments', r.id) IN
                   /\ n.customer_name = r.customer_name
                   /\ n.amount = r.amount
                   /\ n.currency = r.currency
                   /\ n.payment_method = r.payment_method
                   /\ n.created_at = r.created_at
                   /\ r.id # txn[p].id => n = r
       /\ last'.op \in {"list", "stats"} => payments' = payments]_vars

\* C8 witness: of two rows, one has been updated and the other still is as
\* inserted
C8_Witness ==
    /\ last.op = "update_status"
    /\ last.ret = TRUE
    /\ last.rowcount = 1
    /\ \E r, q \in payments :
          /\ r.id = last.id
          /\ r.status = "completed"
          /\ q.id # r.id
          /\ q.status = "pending"
          /\ q.updated_at = q.created_at

\* what a call returns when its statements run
NormalResult ==
    \/ last.op = "none"
    \/ last.conn = "none"
    \/ last.op = "list" /\ last.ret \in ListQuery(payments, last.limit)
    \/ last.op = "stats" /\ DOMAIN last.ret # {}
    \/ /\ last.op \in {"insert", "update_status"}
       /\ last.fault = "none" => last.ret = TRUE

\* C9 (as claimed): a write that fails commits nothing, and the connection
\* recovers: every later call on it runs normally.
C9_RecoversAfterFailure ==
    [][/\ (\E p \in Procs : conn'[p] # conn[p] /\ conn[p] = "ok")
             => payments' = payments
       /\ NormalResult']_vars

\* C10: when updates of one existing row by two processes overlap, each one
\* that the storage accepts returns true, and as each commits the row
\* carries the status and the updated_at that update wrote.
C10_LastWriteWins ==
    (/\ last.op = "update_status"
     /\ last.conn = "ok"
     /\ last.fault = "none"
     /\ last.raced
     /\ last.rowcount > 0) =>
        /\ last.ret = TRUE
        /\ last.id \in RowIds(payments)
        /\ RowOf(payments, last.id).status = last.status
        /\ RowOf(payments, last.id).updated_at = last.now

\* C10 witness: of two overlapping updates of a row both have committed,
\* the second over the status the first wrote
C10_Witness ==
    /\ last.op = "update_status"
    /\ last.conn = "ok"
    /\ last.fault = "none"
    /\ last.raced
    /\ last.status = "pending"
    /\ last.over = "completed"
    /\ \A p \in Procs : txn[p].kind = "none" /\ conn[p] = "ok"
====
